---- MODULE Spec2Model ----
(***************************************************************************)
(* Model of src/core/SoapClient.js: one SoapClient instance, its cached    *)
(* SOAP client and the retry loop of call(), driven by concurrent callers. *)
(* Strings are sequences of tokens so that concatenation, replace() and    *)
(* "contains" are computed, not assumed.                                    *)
(***************************************************************************)
EXTENDS Integers, Sequences, FiniteSets, TLC

\* ------------------------------------------------------------------ bounds
\* Largest maxRetries value passed to the constructor.
MaxRetriesOpt == 2

\* ------------------------------------------------------- program constants
DefaultMaxRetries == 2
DefaultRetryInterval == 1000

\* ------------------------------------------------------------ value domains
\* Two asynchronous tasks that use the same SoapClient instance; each runs one
\* call() at a time and may start another once the previous one has settled.
Callers == {"A", "B"}

\* An option of the constructor's options object: <<>> when the key is not
\* supplied, <<v>> when it is supplied with value v.
Absent == <<>>
MaxRetriesOpts == {Absent} \cup {<<n>> : n \in -1..MaxRetriesOpt}
RetryIntervalOpts == {Absent, <<250>>}

WsdlSuffix == "?wsdl"
WsdlUrls ==
  { <<"https://nfe.prefeitura.sp.gov.br/ws/WSUtil.e", WsdlSuffix>>,
    <<"/opt/nfe/wsdl/WSUtil.wsdl">> }

\* Address the service description itself declares for the port.
DeclaredLocations == { <<"http://declared.example/ws/WSUtil.e">> }

\* Operations the connected client exposes, and the names callers pass.
ClientOperations == {"consultarCnpj"}
EmptyName == ""
MethodNames == ClientOperations \cup {"naoExiste", EmptyName}

Results == {"resultA", "resultB"}
Undefined == "undefined"
NoClient == 0

\* JavaScript undefined and null.
Undef == [t |-> "undefined"]
Null == [t |-> "null"]

CreateErrors == { <<"ECONNREFUSED">> }
RemoteErrors == { <<"ETIMEDOUT">>, <<"soap:Server">> }

\* ------------------------------------------------------------------- state
VARIABLES
  optMaxRetries,     \* options.maxRetries as passed to the constructor
  optRetryInterval,  \* options.retryInterval as passed to the constructor
  wsdlUrl,           \* this.wsdlUrl
  maxRetries,        \* this.options.maxRetries
  retryInterval,     \* this.options.retryInterval
  client,            \* this.client: NoClient or a handle (index into handles)
  handles,           \* every SOAP client object created so far
  task,              \* per caller: the activation of call() it is running
  obs,               \* per caller: what the current call() has done so far
  rhIn,              \* ResponseHandler: the arguments (responseObj, rootNode)
  rhOut,             \* ResponseHandler: what each method returned for them
  im,                \* NotaFiscalSP: this.im
  usuario,           \* NotaFiscalSP: this.usuario
  ftask,             \* NotaFiscalSP: per caller, the operation it is running
  sent,              \* NotaFiscalSP: the remote calls issued so far, in order
  nops,              \* NotaFiscalSP: number of operations started so far
  certIn,            \* certificate loading: the arguments (pfx, password)
  certOut,           \* certificate loading: what loadPfx and new SoapClient gave
  rps,               \* Rps: the fields of the object
  rpsOut             \* Rps: the last method called and how it ended

rhVars == <<rhIn, rhOut>>
facadeVars == <<im, usuario, ftask, sent, nops>>
libVars == <<certIn, certOut, rps, rpsOut>>

\* The variables of the ResponseHandler and of the NotaFiscalSP facade, which
\* the SoapClient never touches.
otherVars == <<rhVars, facadeVars, libVars>>

vars == <<optMaxRetries, optRetryInterval, wsdlUrl, maxRetries, retryInterval,
          client, handles, task, obs, rhIn, rhOut, im, usuario, ftask, sent, nops,
          certIn, certOut, rps, rpsOut>>

\* A caller of the facade that is running no operation.
IdleOp == [pc |-> "idle", op |-> "", arg |-> Undef, cnpjAlvo |-> <<>>, out |-> Undef]

\* The facade as its constructor leaves it, apart from this.usuario.
FacadeFresh ==
  /\ im = Null
  /\ ftask = [c \in Callers |-> IdleOp]
  /\ sent = <<>>
  /\ nops = 0

\* --------------------------------------------------------- pure functions
\* JavaScript `opt || dflt` on a numeric option: undefined and 0 are falsy.
OrDefault(opt, dflt) ==
  IF opt # Absent /\ opt[1] # 0 THEN opt[1] ELSE dflt

\* String.prototype.replace(t, ''): removes the first occurrence of t.
ReplaceFirst(s, t) ==
  IF \E i \in 1..Len(s) : s[i] = t
  THEN LET i == CHOOSE k \in 1..Len(s) :
                  s[k] = t /\ \A j \in 1..(k - 1) : s[j] # t
       IN SubSeq(s, 1, i - 1) \o SubSeq(s, i + 1, Len(s))
  ELSE s

\* s contains sub as a contiguous run of tokens.
Contains(s, sub) ==
  \E i \in 0..(Len(s) - Len(sub)) : SubSeq(s, i + 1, i + Len(sub)) = sub

RequiredNameMessage == <<"Nome do metodo SOAP e obrigatorio">>

NotFoundMessage(methodName) ==
  <<"Metodo SOAP '", methodName, "' nao encontrado no cliente">>

\* Variant that names the method but drops the cause.
ErrorMessageNoCause(methodName, message) ==
  <<"Erro na chamada SOAP '", methodName, "'">>

ErrorMessage(methodName, message) ==
  <<"Erro na chamada SOAP '", methodName, "': ">> \o message

\* Variant that leaves the endpoint the service description declared.
SetEndpointSkipped(h, url) == h

\* client.setEndpoint(url)
SetEndpoint(h, url) == [h EXCEPT !.endpoint = url]

\* The array a remote operation resolves with, and the element call() returns.
Response(r) == <<r, "rawResponse", "soapHeader", "rawRequest">>
\* Variant that hands back the raw response text instead of the result.
ResultOfRaw(resp) == resp[2]

ResultOf(resp) == resp[1]

\* No ResponseHandler method has been given arguments or has returned.
NoInput == <<>>
NoOutput == <<>>

\* No certificate is being loaded and no Rps has been constructed.
LibIdle ==
  /\ certIn = NoInput /\ certOut = NoOutput
  /\ rps = NoInput /\ rpsOut = NoOutput

\* ----------------------------------------------------------------- call()
IdleTask ==
  [pc |-> "idle", methodName |-> EmptyName, attempt |-> 0, client |-> NoClient,
   delayMs |-> 0, value |-> Undefined, error |-> <<>>]

NoObs ==
  [attempts |-> 0, waits |-> 0, creates |-> 0, ops |-> 0,
   lastErr |-> <<>>, lastResp |-> <<>>, usedHandle |-> NoClient,
   sentTo |-> <<>>, waitMs |-> 0, status |-> "none"]

MaxAttempts == maxRetries + 1

\* Variant without the cache test: every entry starts a creation.
CreateClientUncached(t) == [t EXCEPT !.pc = "creating"]

\* _createClient() up to its first suspension point.
CreateClientEntry(t) ==
  IF client # NoClient
  THEN [t EXCEPT !.pc = "awaitClient", !.client = client]
  ELSE [t EXCEPT !.pc = "creating"]

\* The loop test of call() and, when it passes, the start of the try body.
LoopHead(t) ==
  IF t.attempt <= MaxAttempts
  THEN CreateClientEntry(t)
  ELSE [t EXCEPT !.pc = "returned", !.value = Undefined]

\* Variant whose wait grows with the attempt number.
CatchBackoff(t, message) ==
  IF t.attempt = MaxAttempts
  THEN [t EXCEPT !.pc = "thrown", !.error = ErrorMessage(t.methodName, message)]
  ELSE [t EXCEPT !.pc = "delaying", !.delayMs = retryInterval * t.attempt]

\* The catch block of call().
Catch(t, message) ==
  IF t.attempt = MaxAttempts
  THEN [t EXCEPT !.pc = "thrown", !.error = ErrorMessage(t.methodName, message)]
  ELSE [t EXCEPT !.pc = "delaying", !.delayMs = retryInterval]

\* What the call has done, given the step from t to t2.
ObsEnter(o, t2) ==
  [o EXCEPT !.attempts = IF t2.pc \in {"awaitClient", "creating"} THEN @ + 1 ELSE @,
            !.creates = IF t2.pc = "creating" THEN @ + 1 ELSE @]

ObsCatch(o, t2, message) ==
  [o EXCEPT !.lastErr = message,
            !.status = "failed",
            !.waits = IF t2.pc = "delaying" THEN @ + 1 ELSE @,
            !.waitMs = IF t2.pc = "delaying" THEN t2.delayMs ELSE @]

Finished(c) == task[c].pc \in {"idle", "returned", "thrown"}

\* Variant without the test of methodName.
CallUnchecked(c, m) ==
  /\ Finished(c)
  /\ LET t2 == LoopHead([IdleTask EXCEPT !.methodName = m, !.attempt = 1])
     IN /\ task' = [task EXCEPT ![c] = t2]
        /\ obs' = [obs EXCEPT ![c] = ObsEnter(NoObs, t2)]
  /\ UNCHANGED <<otherVars, optMaxRetries, optRetryInterval, wsdlUrl, maxRetries,
                 retryInterval, client, handles>>

\* call(methodName, args): lines 104-112, up to the first await.
Call(c, m) ==
  /\ Finished(c)
  /\ LET t0 == [IdleTask EXCEPT !.methodName = m]
         t2 == IF m = EmptyName
               THEN [t0 EXCEPT !.pc = "thrown", !.error = RequiredNameMessage]
               ELSE LoopHead([t0 EXCEPT !.attempt = 1])
     IN /\ task' = [task EXCEPT ![c] = t2]
        /\ obs' = [obs EXCEPT ![c] = ObsEnter(NoObs, t2)]
  /\ UNCHANGED <<otherVars, optMaxRetries, optRetryInterval, wsdlUrl, maxRetries,
                 retryInterval, client, handles>>

\* soap.createClientAsync resolves: lines 89-93.
CreateResolve(c) ==
  /\ task[c].pc = "creating"
  /\ \E loc \in DeclaredLocations :
       LET h == Len(handles) + 1
           made == [endpoint |-> loc]
       IN /\ handles' = Append(handles, SetEndpoint(made, ReplaceFirst(wsdlUrl, WsdlSuffix)))
          /\ client' = h
          /\ task' = [task EXCEPT ![c] = [@ EXCEPT !.pc = "awaitClient", !.client = h]]
  /\ UNCHANGED <<otherVars, optMaxRetries, optRetryInterval, wsdlUrl, maxRetries,
                 retryInterval, obs>>

\* soap.createClientAsync rejects: the await of line 112 throws into the catch.
CreateReject(c, e) ==
  /\ task[c].pc = "creating"
  /\ LET t2 == Catch(task[c], e)
     IN /\ task' = [task EXCEPT ![c] = t2]
        /\ obs' = [obs EXCEPT ![c] = ObsCatch(@, t2, e)]
  /\ UNCHANGED <<otherVars, optMaxRetries, optRetryInterval, wsdlUrl, maxRetries,
                 retryInterval, client, handles>>

\* call() resumes with the client: lines 114-119.
Resume(c) ==
  /\ task[c].pc = "awaitClient"
  /\ LET t == task[c]
     IN IF t.methodName \notin ClientOperations
        THEN LET t2 == Catch(t, NotFoundMessage(t.methodName))
             IN /\ task' = [task EXCEPT ![c] = t2]
                /\ obs' = [obs EXCEPT ![c] = ObsCatch(@, t2, NotFoundMessage(t.methodName))]
        ELSE /\ task' = [task EXCEPT ![c] = [t EXCEPT !.pc = "invoking"]]
             /\ obs' = [obs EXCEPT ![c] = [@ EXCEPT !.ops = @ + 1,
                                                    !.usedHandle = t.client,
                                                    !.sentTo = handles[t.client].endpoint]]
  /\ UNCHANGED <<otherVars, optMaxRetries, optRetryInterval, wsdlUrl, maxRetries,
                 retryInterval, client, handles>>

\* The remote operation resolves: lines 119-125.
InvokeResolve(c, r) ==
  /\ task[c].pc = "invoking"
  /\ LET resp == Response(r)
     IN /\ task' = [task EXCEPT ![c] = [@ EXCEPT !.pc = "returned", !.value = ResultOf(resp)]]
        /\ obs' = [obs EXCEPT ![c] = [@ EXCEPT !.lastResp = resp, !.status = "succeeded"]]
  /\ UNCHANGED <<otherVars, optMaxRetries, optRetryInterval, wsdlUrl, maxRetries,
                 retryInterval, client, handles>>

\* The remote operation rejects (network error, timeout, fault).
InvokeReject(c, e) ==
  /\ task[c].pc = "invoking"
  /\ LET t2 == Catch(task[c], e)
     IN /\ task' = [task EXCEPT ![c] = t2]
        /\ obs' = [obs EXCEPT ![c] = ObsCatch(@, t2, e)]
  /\ UNCHANGED <<otherVars, optMaxRetries, optRetryInterval, wsdlUrl, maxRetries,
                 retryInterval, client, handles>>

\* Variant whose loop does not count the attempt it retries.
DelayDoneNoIncrement(c) ==
  /\ task[c].pc = "delaying"
  /\ LET t2 == LoopHead(task[c])
     IN /\ task' = [task EXCEPT ![c] = t2]
        /\ obs' = [obs EXCEPT ![c] = ObsEnter(@, t2)]
  /\ UNCHANGED <<otherVars, optMaxRetries, optRetryInterval, wsdlUrl, maxRetries,
                 retryInterval, client, handles>>

\* The timer of _delay fires: the loop increment and the next iteration.
DelayDone(c) ==
  /\ task[c].pc = "delaying"
  /\ LET t2 == LoopHead([task[c] EXCEPT !.attempt = @ + 1])
     IN /\ task' = [task EXCEPT ![c] = t2]
        /\ obs' = [obs EXCEPT ![c] = ObsEnter(@, t2)]
  /\ UNCHANGED <<otherVars, optMaxRetries, optRetryInterval, wsdlUrl, maxRetries,
                 retryInterval, client, handles>>

\* The SoapClient constructor, lines 20-38.
Init ==
  /\ optMaxRetries \in MaxRetriesOpts
  /\ optRetryInterval \in RetryIntervalOpts
  /\ wsdlUrl \in WsdlUrls
  /\ maxRetries = OrDefault(optMaxRetries, DefaultMaxRetries)
  /\ retryInterval = OrDefault(optRetryInterval, DefaultRetryInterval)
  /\ client = NoClient
  /\ handles = <<>>
  /\ task = [c \in Callers |-> IdleTask]
  /\ obs = [c \in Callers |-> NoObs]
  /\ rhIn = NoInput
  /\ rhOut = NoOutput
  /\ FacadeFresh
  /\ usuario = <<>>
  /\ LibIdle

Next ==
  \E c \in Callers :
    \/ \E m \in MethodNames : Call(c, m)
    \/ CreateResolve(c)
    \/ \E e \in CreateErrors : CreateReject(c, e)
    \/ Resume(c)
    \/ \E r \in Results : InvokeResolve(c, r)
    \/ \E e \in RemoteErrors : InvokeReject(c, e)
    \/ DelayDone(c)

Spec == Init /\ [][Next]_vars

\* What a running call() is waiting for comes to an end: the creation of the
\* client, the resumption after it, the remote operation, or the retry wait.
Completes(c) ==
  \/ CreateResolve(c)
  \/ \E e \in CreateErrors : CreateReject(c, e)
  \/ Resume(c)
  \/ \E r \in Results : InvokeResolve(c, r)
  \/ \E e \in RemoteErrors : InvokeReject(c, e)
  \/ DelayDone(c)

\* The SoapClient when every pending creation, operation and wait completes.
LiveSpec == Init /\ [][Next]_vars /\ \A c \in Callers : WF_vars(Completes(c))

\* Callers that never overlap: a call() starts only when no other is running.
SeqCall(c, m) ==
  /\ \A d \in Callers : Finished(d)
  /\ Call(c, m)

SeqNext ==
  \E c \in Callers :
    \/ \E m \in MethodNames : SeqCall(c, m)
    \/ CreateResolve(c)
    \/ \E e \in CreateErrors : CreateReject(c, e)
    \/ Resume(c)
    \/ \E r \in Results : InvokeResolve(c, r)
    \/ \E e \in RemoteErrors : InvokeReject(c, e)
    \/ DelayDone(c)

SeqSpec == Init /\ [][SeqNext]_vars

\* ------------------------------------------------------- JavaScript values
\* A value carries its type tag; a string is a sequence of tokens, an object a
\* sequence of <<key, value>> properties in insertion order (undefined and
\* null are defined with the constants above).
Str(s) == [t |-> "string", s |-> s]
Num(n) == [t |-> "number", n |-> n]
Bool(b) == [t |-> "boolean", b |-> b]
Obj(p) == [t |-> "object", p |-> p]
EmptyStr == Str(<<>>)

Truthy(v) ==
  CASE v.t = "undefined" -> FALSE
    [] v.t = "null" -> FALSE
    [] v.t = "string" -> v.s # <<>>
    [] v.t = "number" -> v.n # 0
    [] v.t = "boolean" -> v.b
    [] OTHER -> TRUE

\* a || b and a && b
JsOr(a, b) == IF Truthy(a) THEN a ELSE b
JsAnd(a, b) == IF Truthy(a) THEN b ELSE a

TypeOf(v) == IF v.t = "null" THEN "object" ELSE v.t

HasKey(o, k) == o.t = "object" /\ \E i \in 1..Len(o.p) : o.p[i][1] = k

\* o[k] for a value that is not null or undefined (the code guards those).
Get(o, k) ==
  IF HasKey(o, k)
  THEN o.p[CHOOSE i \in 1..Len(o.p) : o.p[i][1] = k][2]
  ELSE Undef

\* String(v), as template literals and RegExp.test coerce their operand.
ToStr(v) ==
  CASE v.t = "string" -> v.s
    [] v.t = "number" -> <<ToString(v.n)>>
    [] v.t = "boolean" -> IF v.b THEN <<"true">> ELSE <<"false">>
    [] v.t = "object" -> <<"[object Object]">>
    [] OTHER -> <<v.t>>

Whitespace == {" "}

\* String.prototype.trim
Trim(s) ==
  LET keep == {i \in 1..Len(s) : s[i] \notin Whitespace}
  IN IF keep = {} THEN <<>>
     ELSE SubSeq(s, CHOOSE i \in keep : \A j \in keep : i <= j,
                    CHOOSE i \in keep : \A j \in keep : i >= j)

RECURSIVE JsonStringify(_)
RECURSIVE JsonMembers(_, _)

\* The members of an object literal from property i on.
JsonMembers(p, i) ==
  IF i > Len(p) THEN <<>>
  ELSE (IF i > 1 THEN <<",">> ELSE <<>>)
       \o <<"\"", p[i][1], "\"", ":">> \o JsonStringify(p[i][2])
       \o JsonMembers(p, i + 1)

\* JSON.stringify(v)
JsonStringify(v) ==
  CASE v.t = "string" -> <<"\"">> \o v.s \o <<"\"">>
    [] v.t = "object" -> <<"{">> \o JsonMembers(v.p, 1) \o <<"}">>
    [] OTHER -> ToStr(v)

ToLower(tok) ==
  CASE tok \in {"Processado", "PROCESSADO"} -> "processado"
    [] tok = "Processando" -> "processando"
    [] OTHER -> tok

\* /processado/i.test(v)
TestProcessado(v) ==
  LET str == ToStr(v)
  IN \E i \in 1..Len(str) : ToLower(str[i]) = "processado"

\* ---------------------------------------------------------- ResponseHandler
\* hasFault(response), for a response that is already parsed.
hasFault(response) ==
  JsAnd(JsAnd(JsAnd(response, Get(response, "Envelope")),
              Get(Get(response, "Envelope"), "Body")),
        Get(Get(Get(response, "Envelope"), "Body"), "Fault"))

\* Variant that leaves the detail out of the message.
FaultTextNoDetail(fault) ==
  LET faultString == JsOr(JsOr(Get(fault, "faultstring"), Get(fault, "faultString")), EmptyStr)
      faultCode == JsOr(JsOr(Get(fault, "faultcode"), Get(fault, "faultCode")), EmptyStr)
      m0 == ToStr(faultString)
      m1 == IF Truthy(faultCode)
            THEN <<"[">> \o ToStr(faultCode) \o <<"]", " ">> \o m0
            ELSE m0
  IN Str(Trim(m1))

\* The message getFaultMessage composes for a Fault that is not a string.
FaultText(fault) ==
  LET faultString == JsOr(JsOr(Get(fault, "faultstring"), Get(fault, "faultString")), EmptyStr)
      faultCode == JsOr(JsOr(Get(fault, "faultcode"), Get(fault, "faultCode")), EmptyStr)
      detail == JsOr(Get(fault, "detail"), EmptyStr)
      m0 == ToStr(faultString)
      m1 == IF Truthy(faultCode)
            THEN <<"[">> \o ToStr(faultCode) \o <<"]", " ">> \o m0
            ELSE m0
      m2 == IF Truthy(detail)
            THEN m1 \o <<" ", "-", " ", "Detalhe:", " ">>
                    \o (IF TypeOf(detail) = "string" THEN detail.s
                        ELSE JsonStringify(detail))
            ELSE m1
  IN Str(Trim(m2))

\* getFaultMessage(response)
getFaultMessage(response) ==
  IF \/ ~Truthy(response)
     \/ ~Truthy(Get(response, "Envelope"))
     \/ ~Truthy(Get(Get(response, "Envelope"), "Body"))
     \/ ~Truthy(Get(Get(Get(response, "Envelope"), "Body"), "Fault"))
  THEN Null
  ELSE LET fault == Get(Get(Get(response, "Envelope"), "Body"), "Fault")
       IN IF TypeOf(fault) = "string" THEN fault ELSE FaultText(fault)

\* result.status || result.situacao || result.Status || ''
StatusOf(result) ==
  JsOr(JsOr(JsOr(Get(result, "status"), Get(result, "situacao")),
            Get(result, "Status")), EmptyStr)

\* Variant whose pattern has no i flag.
IsSuccessCaseSensitive(statusVal) ==
  \/ statusVal = Str(<<"1">>)
  \/ \E i \in 1..Len(ToStr(statusVal)) : ToStr(statusVal)[i] = "processado"

\* statusVal === '1' || /processado/i.test(statusVal)
IsSuccess(statusVal) ==
  statusVal = Str(<<"1">>) \/ TestProcessado(statusVal)

\* Variant that looks for the message whatever the status.
ErrorOfAnyStatus(success, result) ==
  LET error0 == JsOr(JsOr(JsOr(Get(result, "mensagem"), Get(result, "MsgErro")),
                          Get(result, "erro")), Null)
  IN IF ~Truthy(error0) THEN Str(JsonStringify(result)) ELSE error0

\* Variant that tries erro before MsgErro.
ErrorOfErroFirst(success, result) ==
  IF success THEN Null
  ELSE LET error0 == JsOr(JsOr(JsOr(Get(result, "mensagem"), Get(result, "erro")),
                               Get(result, "MsgErro")), Null)
       IN IF ~Truthy(error0) THEN Str(JsonStringify(result)) ELSE error0

\* let error = null; if (!success) { error = ... }
ErrorOf(success, result) ==
  IF success THEN Null
  ELSE LET error0 == JsOr(JsOr(JsOr(Get(result, "mensagem"), Get(result, "MsgErro")),
                               Get(result, "erro")), Null)
       IN IF ~Truthy(error0) THEN Str(JsonStringify(result)) ELSE error0

Normalized(success, data, error) ==
  [t |-> "normalized", success |-> success, data |-> data, error |-> error]

\* normalizeResponse(responseObj, rootNode)
normalizeResponse(responseObj, rootNode) ==
  IF ~Truthy(responseObj)
  THEN Normalized(FALSE, Null, Str(<<"Resposta vazia">>))
  ELSE
  LET body == JsAnd(Get(responseObj, "Envelope"), Get(Get(responseObj, "Envelope"), "Body"))
  IN
  IF ~Truthy(body)
  THEN Normalized(FALSE, Null, Str(<<"Resposta sem corpo (Body)">>))
  ELSE IF Truthy(Get(body, "Fault"))
  THEN Normalized(FALSE, Null, getFaultMessage(responseObj))
  ELSE
  LET result == IF Truthy(rootNode) THEN Get(body, rootNode.s[1]) ELSE Null
  IN
  IF ~Truthy(result)
  THEN Normalized(TRUE, body, Null)
  ELSE IF TypeOf(result) = "object"
  THEN LET success == IsSuccess(StatusOf(result))
       IN Normalized(success, result, ErrorOf(success, result))
  ELSE Normalized(TRUE, result, Null)

\* Inputs of the ResponseHandler: envelopes as the XML parser builds them. An
\* empty element parses to the empty string, a numeric text to a number.
S(tok) == Str(<<tok>>)
P(k, v) == <<k, v>>

FaultValues ==
  { EmptyStr,
    Str(<<"Server", " ", "busy">>),
    Obj(<<P("faultcode", S("ns1:Server")), P("faultstring", Str(<<"internal", " ", "error">>))>>),
    Obj(<<P("faultstring", Str(<<"internal", " ", "error">>))>>),
    Obj(<<P("faultcode", S("ns1:Client"))>>),
    Obj(<<P("detail", S("stack"))>>),
    Obj(<<P("faultcode", S("ns1:Server")), P("faultstring", S("falha")), P("detail", S("stack"))>>),
    Obj(<<P("faultstring", S("falha")), P("detail", Obj(<<P("codigo", S("E42"))>>))>>),
    Obj(<<P("faultCode", S("ns1:Server")), P("faultString", S("falha"))>>),
    Obj(<<P("faultcode", EmptyStr), P("faultstring", S("falha")), P("detail", EmptyStr)>>),
    Obj(<<P("Code", S("soap:Sender"))>>) }

NodeValues ==
  { S("OK"), EmptyStr, Num(0), Num(7), Bool(FALSE),
    Obj(<<>>),
    Obj(<<P("status", S("1"))>>),
    Obj(<<P("status", Num(1))>>),
    Obj(<<P("status", S("0"))>>),
    Obj(<<P("status", S("0")), P("mensagem", Str(<<"CNPJ", " ", "invalido">>))>>),
    Obj(<<P("status", S("0")), P("MsgErro", S("lote rejeitado")), P("erro", S("E7"))>>),
    Obj(<<P("status", S("0")), P("erro", S("E7"))>>),
    Obj(<<P("status", S("0")), P("mensagem", EmptyStr), P("erro", S("E7"))>>),
    Obj(<<P("status", S("1")), P("mensagem", S("aviso"))>>),
    Obj(<<P("situacao", S("Processado"))>>),
    Obj(<<P("situacao", Str(<<"Nao", " ", "processado">>))>>),
    Obj(<<P("situacao", S("Processando")), P("mensagem", S("em fila"))>>),
    Obj(<<P("Status", S("PROCESSADO"))>>),
    Obj(<<P("status", S("0")), P("situacao", S("1"))>>),
    Obj(<<P("status", EmptyStr), P("situacao", S("1"))>>),
    Obj(<<P("status", Num(0)), P("situacao", S("1"))>>),
    Obj(<<P("status", S("0")), P("mensagem", Num(0)), P("erro", S("E7"))>>),
    Obj(<<P("situacao", S("2")), P("Status", S("1"))>>),
    Obj(<<P("protocolo", S("123"))>>) }

NodeKey == "myOp"

\* Bodies: an optional Fault, an optional result node, and another element.
Bodies ==
  { Obj(f \o n \o <<P("outro", S("x"))>>) :
      f \in {<<>>} \cup {<<P("Fault", v)>> : v \in FaultValues},
      n \in {<<>>} \cup {<<P(NodeKey, v)>> : v \in NodeValues} }

Responses ==
  { Undef, Null, Obj(<<>>), Obj(<<P("Envelope", Obj(<<>>))>>),
    Obj(<<P("Envelope", Obj(<<P("Body", EmptyStr)>>))>>) }
  \cup { Obj(<<P("Envelope", Obj(<<P("Body", b)>>))>>) : b \in Bodies }

RootNodes == { Undef, EmptyStr, S(NodeKey), S("nfdEntradaReturn") }

NotCalled == [t |-> "notcalled"]

\* The SoapClient is left as constructed with default options.
soapVars == <<optMaxRetries, optRetryInterval, wsdlUrl, maxRetries,
              retryInterval, client, handles, task, obs>>

SoapIdle ==
  /\ optMaxRetries = Absent
  /\ optRetryInterval = Absent
  /\ wsdlUrl = <<"https://nfe.prefeitura.sp.gov.br/ws/WSUtil.e", WsdlSuffix>>
  /\ maxRetries = OrDefault(optMaxRetries, DefaultMaxRetries)
  /\ retryInterval = OrDefault(optRetryInterval, DefaultRetryInterval)
  /\ client = NoClient
  /\ handles = <<>>
  /\ task = [c \in Callers |-> IdleTask]
  /\ obs = [c \in Callers |-> NoObs]

RhInit ==
  /\ SoapIdle
  /\ rhIn \in [response : Responses, rootNode : RootNodes]
  /\ rhOut = [normalized |-> NotCalled, faultMessage |-> NotCalled, hasFault |-> NotCalled]
  /\ FacadeFresh
  /\ usuario = <<>>
  /\ LibIdle

CallNormalizeResponse ==
  /\ rhOut.normalized = NotCalled
  /\ rhOut' = [rhOut EXCEPT !.normalized = normalizeResponse(rhIn.response, rhIn.rootNode)]
  /\ UNCHANGED <<soapVars, rhIn, facadeVars, libVars>>

CallGetFaultMessage ==
  /\ rhOut.faultMessage = NotCalled
  /\ rhOut' = [rhOut EXCEPT !.faultMessage = getFaultMessage(rhIn.response)]
  /\ UNCHANGED <<soapVars, rhIn, facadeVars, libVars>>

CallHasFault ==
  /\ rhOut.hasFault = NotCalled
  /\ rhOut' = [rhOut EXCEPT !.hasFault = hasFault(rhIn.response)]
  /\ UNCHANGED <<soapVars, rhIn, facadeVars, libVars>>

RhNext ==
  \/ CallNormalizeResponse
  \/ CallGetFaultMessage
  \/ CallHasFault

RhSpec == RhInit /\ [][RhNext]_vars

\* ------------------------------------------------------------ NotaFiscalSP
\* Operations started on one facade; together with the two callers it bounds
\* the histories explored.
MaxOps == 3

\* str.replace(/\D/g, ''): the tokens that are not digits are dropped.
NonDigits == {".", "/", "-"}
OnlyDigits(s) == SelectSeq(s, LAMBDA tok : tok \notin NonDigits)

\* The constructor's cnpj and usuario arguments, as a user writes them.
CnpjGiven == <<"11222333", "/", "0001", "-", "81">>
OtherCnpjGiven == <<"99888777", "/", "0001", "-", "55">>
UsuarioGiven == {<<>>, <<"123", ".", "456", ".", "789", "-", "09">>}

\* this.cnpj
Cnpj == OnlyDigits(CnpjGiven)

\* Arguments of the public operations.
CnpjArgs == {Undef, Str(OtherCnpjGiven)}
RpsPayloads == {Undef, Obj(<<>>), Obj(<<P("numero", S("1"))>>)}
ReciboArgs == {Undef, S("recibo-77")}
LoteArgs == {Undef, S("lote-5")}
CancelPayloads ==
  { Undef,
    Obj(<<P("motivo", S("erro de digitacao"))>>),
    Obj(<<P("numeroRps", S("15"))>>),
    Obj(<<P("numeroRps", S("15")), P("motivo", S("erro de digitacao"))>>),
    Obj(<<P("numeroRps", S("15")), P("motivo", S("erro de digitacao")),
          P("im", S("IM-11222333")), P("numeroNfse", S("900")), P("serie", S("RPS"))>>) }

\* What the remote services answer. consultarCnpj answers with the
\* registration of the CNPJ asked, with an answer that has none, or with
\* nothing; the other services answer with a receipt. Any call may also fail
\* after its retries.
Registration(cnpj) == IF cnpj = Cnpj THEN S("IM-11222333") ELSE S("IM-99888777")
CnpjReplies(cnpj) ==
  { Null, Obj(<<>>), Obj(<<P("inscricaomunicipal", EmptyStr)>>),
    Obj(<<P("inscricaomunicipal", Registration(cnpj))>>) }
RemoteReplies == {S("protocolo-1")}
CallFailures == {"Erro na chamada SOAP"}

\* How an operation ends, and the remote call it is about to make.
Threw(message) == [t |-> "threw", message |-> message]
Returned(value) == [t |-> "returned", value |-> value]
Sending(method, arg) == [t |-> "send", method |-> method, arg |-> arg]

\* buildRpsXml({...rpsPayload, im: this.im}): the body carries the facade's
\* registration number; a payload that fails the builder's validation throws.
buildRpsXml(rpsPayload, imNow) ==
  IF ~Truthy(Get(rpsPayload, "numero"))
  THEN Threw("RPS invalido")
  ELSE [t |-> "xml", root |-> "rps", im |-> imNow]

\* buildCancelXml(data): the body carries the registration number of the
\* payload, data.im.
buildCancelXml(data) ==
  IF ~Truthy(data) \/ TypeOf(data) # "object"
    THEN Threw("Dados para cancelamento sao obrigatorios")
  ELSE IF ~Truthy(Get(data, "im"))
    THEN Threw("Inscricao municipal (im) e obrigatoria")
  ELSE IF ~Truthy(Get(data, "numeroNfse"))
    THEN Threw("Numero da NF-e para cancelamento e obrigatorio")
  ELSE IF ~Truthy(Get(data, "serie"))
    THEN Threw("Serie da NF-e para cancelamento e obrigatoria")
  ELSE IF ~Truthy(Get(data, "motivo"))
    THEN Threw("Motivo do cancelamento e obrigatorio")
  ELSE [t |-> "xml", root |-> "cancelar", im |-> Get(data, "im")]

\* enviarNota after its "if (!this.im) await this.consultarInscricao()".
enviarNotaRest(rpsPayload, imNow) ==
  IF ~Truthy(rpsPayload)
  THEN Threw("Payload para envio da nota e obrigatorio")
  ELSE LET xml == buildRpsXml(rpsPayload, imNow)
       IN IF xml.t = "threw" THEN xml ELSE Sending("nfdEntrada", xml)

\* consultarNota after the same test.
consultarNotaRest(reciboNumero, imNow) ==
  IF ~Truthy(reciboNumero)
  THEN Threw("Numero do recibo e obrigatorio para consulta")
  ELSE Sending("nfdSaida", [t |-> "params", im |-> imNow, arg |-> reciboNumero])

\* consultarLote after the same test.
consultarLoteRest(numeroLote, imNow) ==
  IF ~Truthy(numeroLote)
  THEN Threw("Numero do lote e obrigatorio para consulta")
  ELSE Sending("nfdConsultaLote", [t |-> "params", im |-> imNow, arg |-> numeroLote])

\* cancelarNota up to its remote call: it never looks at this.im.
cancelarNotaBody(cancelPayload, usr, imNow) ==
  IF ~Truthy(cancelPayload)
    THEN Threw("Payload para cancelamento e obrigatorio")
  ELSE IF ~Truthy(Get(cancelPayload, "numeroRps"))
    THEN Threw("Numero do RPS/nfs a cancelar e obrigatorio")
  ELSE IF ~Truthy(Get(cancelPayload, "motivo"))
    THEN Threw("Motivo do cancelamento e obrigatorio")
  ELSE IF usr = <<>>
    THEN Threw("CPF usuario deve estar configurado para cancelamento")
  ELSE LET xml == buildCancelXml(cancelPayload)
       IN IF xml.t = "threw" THEN xml ELSE Sending("nfdEntradaCancelar", xml)

\* The rest of the operation op once this.im is known to be set.
RestOf(op, arg, imNow) ==
  CASE op = "enviarNota" -> enviarNotaRest(arg, imNow)
    [] op = "consultarNota" -> consultarNotaRest(arg, imNow)
    [] OTHER -> consultarLoteRest(arg, imNow)

\* A caller may start an operation when it runs none.
CanStart(c) == ftask[c].pc \in {"idle", "done"} /\ nops < MaxOps

\* The operation t of caller c throws, or issues the remote call r and waits
\* for it; imNow is this.im at that moment.
Proceed(c, t, r, imNow) ==
  IF r.t = "threw"
  THEN /\ ftask' = [ftask EXCEPT ![c] = [t EXCEPT !.pc = "done", !.out = r]]
       /\ sent' = sent
  ELSE /\ ftask' = [ftask EXCEPT ![c] = [t EXCEPT !.pc = "calling"]]
       /\ sent' = Append(sent, [method |-> r.method, by |-> c, im |-> imNow, arg |-> r.arg])

\* consultarInscricao(cnpjConsulta) up to its await: consultarCnpj is called
\* for cnpjConsulta, or for this.cnpj when none is given.
Resolve(c, t, cnpjConsulta) ==
  LET cnpjAlvo == OnlyDigits(JsOr(cnpjConsulta, Str(Cnpj)).s)
  IN /\ ftask' = [ftask EXCEPT ![c] = [t EXCEPT !.pc = "resolving", !.cnpjAlvo = cnpjAlvo]]
     /\ sent' = Append(sent, [method |-> "consultarCnpj", by |-> c, im |-> im,
                              arg |-> Str(cnpjAlvo)])

ConsultarInscricao(c, cnpjConsulta) ==
  /\ CanStart(c)
  /\ nops' = nops + 1
  /\ Resolve(c, [IdleOp EXCEPT !.op = "consultarInscricao", !.arg = cnpjConsulta], cnpjConsulta)
  /\ UNCHANGED <<im, usuario, soapVars, rhVars, libVars>>

EnviarNota(c, rpsPayload) ==
  /\ CanStart(c)
  /\ nops' = nops + 1
  /\ LET t == [IdleOp EXCEPT !.op = "enviarNota", !.arg = rpsPayload]
     IN IF ~Truthy(im) THEN Resolve(c, t, Undef)
        ELSE Proceed(c, t, enviarNotaRest(rpsPayload, im), im)
  /\ UNCHANGED <<im, usuario, soapVars, rhVars, libVars>>

\* Variant that resolves the registration on every call.
ConsultarNotaAlwaysResolves(c, reciboNumero) ==
  /\ CanStart(c)
  /\ nops' = nops + 1
  /\ Resolve(c, [IdleOp EXCEPT !.op = "consultarNota", !.arg = reciboNumero], Undef)
  /\ UNCHANGED <<im, usuario, soapVars, rhVars, libVars>>

ConsultarNota(c, reciboNumero) ==
  /\ CanStart(c)
  /\ nops' = nops + 1
  /\ LET t == [IdleOp EXCEPT !.op = "consultarNota", !.arg = reciboNumero]
     IN IF ~Truthy(im) THEN Resolve(c, t, Undef)
        ELSE Proceed(c, t, consultarNotaRest(reciboNumero, im), im)
  /\ UNCHANGED <<im, usuario, soapVars, rhVars, libVars>>

CancelarNota(c, cancelPayload) ==
  /\ CanStart(c)
  /\ nops' = nops + 1
  /\ Proceed(c, [IdleOp EXCEPT !.op = "cancelarNota", !.arg = cancelPayload],
             cancelarNotaBody(cancelPayload, usuario, im), im)
  /\ UNCHANGED <<im, usuario, soapVars, rhVars, libVars>>

ConsultarLote(c, numeroLote) ==
  /\ CanStart(c)
  /\ nops' = nops + 1
  /\ LET t == [IdleOp EXCEPT !.op = "consultarLote", !.arg = numeroLote]
     IN IF ~Truthy(im) THEN Resolve(c, t, Undef)
        ELSE Proceed(c, t, consultarLoteRest(numeroLote, im), im)
  /\ UNCHANGED <<im, usuario, soapVars, rhVars, libVars>>

\* soapUtil.call('consultarCnpj') returns: consultarInscricao throws when the
\* answer has no registration, else sets this.im and returns; the operation
\* that awaited it then goes on.
ConsultarCnpjResolve(c, response) ==
  /\ ftask[c].pc = "resolving"
  /\ IF ~Truthy(response) \/ ~Truthy(Get(response, "inscricaomunicipal"))
     THEN /\ ftask' = [ftask EXCEPT ![c] = [@ EXCEPT !.pc = "done",
                 !.out = Threw("Nao foi possivel obter inscricao municipal para o CNPJ informado.")]]
          /\ UNCHANGED <<im, sent>>
     ELSE LET imNow == Get(response, "inscricaomunicipal")
          IN /\ im' = imNow
             /\ IF ftask[c].op = "consultarInscricao"
                THEN /\ ftask' = [ftask EXCEPT ![c] = [@ EXCEPT !.pc = "done",
                                                         !.out = Returned(response)]]
                     /\ sent' = sent
                ELSE Proceed(c, ftask[c], RestOf(ftask[c].op, ftask[c].arg, imNow), imNow)
  /\ UNCHANGED <<usuario, nops, soapVars, rhVars, libVars>>

\* Variant in which an operation goes on after its resolution has thrown.
ConsultarCnpjRejectSwallowed(c, message) ==
  /\ ftask[c].pc = "resolving"
  /\ IF ftask[c].op = "consultarInscricao"
     THEN /\ ftask' = [ftask EXCEPT ![c] = [@ EXCEPT !.pc = "done", !.out = Threw(message)]]
          /\ sent' = sent
     ELSE Proceed(c, ftask[c], RestOf(ftask[c].op, ftask[c].arg, im), im)
  /\ UNCHANGED <<im, usuario, nops, soapVars, rhVars, libVars>>

\* soapUtil.call('consultarCnpj') throws: the error reaches the caller.
ConsultarCnpjReject(c, message) ==
  /\ ftask[c].pc = "resolving"
  /\ ftask' = [ftask EXCEPT ![c] = [@ EXCEPT !.pc = "done", !.out = Threw(message)]]
  /\ UNCHANGED <<im, usuario, sent, nops, soapVars, rhVars, libVars>>

\* The operation's own remote call returns: so does the operation.
RemoteResolve(c, response) ==
  /\ ftask[c].pc = "calling"
  /\ ftask' = [ftask EXCEPT ![c] = [@ EXCEPT !.pc = "done", !.out = Returned(response)]]
  /\ UNCHANGED <<im, usuario, sent, nops, soapVars, rhVars, libVars>>

\* The operation's own remote call throws.
RemoteReject(c, message) ==
  /\ ftask[c].pc = "calling"
  /\ ftask' = [ftask EXCEPT ![c] = [@ EXCEPT !.pc = "done", !.out = Threw(message)]]
  /\ UNCHANGED <<im, usuario, sent, nops, soapVars, rhVars, libVars>>

FacadeInit ==
  /\ SoapIdle
  /\ rhIn = NoInput
  /\ rhOut = NoOutput
  /\ FacadeFresh
  /\ usuario \in {OnlyDigits(u) : u \in UsuarioGiven}
  /\ LibIdle

FacadeNext ==
  \E c \in Callers :
    \/ \E cnpjConsulta \in CnpjArgs : ConsultarInscricao(c, cnpjConsulta)
    \/ \E rpsPayload \in RpsPayloads : EnviarNota(c, rpsPayload)
    \/ \E reciboNumero \in ReciboArgs : ConsultarNota(c, reciboNumero)
    \/ \E cancelPayload \in CancelPayloads : CancelarNota(c, cancelPayload)
    \/ \E numeroLote \in LoteArgs : ConsultarLote(c, numeroLote)
    \/ \E response \in CnpjReplies(ftask[c].cnpjAlvo) : ConsultarCnpjResolve(c, response)
    \/ \E message \in CallFailures : ConsultarCnpjReject(c, message)
    \/ \E response \in RemoteReplies : RemoteResolve(c, response)
    \/ \E message \in CallFailures : RemoteReject(c, message)

FacadeSpec == FacadeInit /\ [][FacadeNext]_vars

\* The facade used only through the three operations that need this.im.
LazyNext ==
  \E c \in Callers :
    \/ \E rpsPayload \in RpsPayloads : EnviarNota(c, rpsPayload)
    \/ \E reciboNumero \in ReciboArgs : ConsultarNota(c, reciboNumero)
    \/ \E numeroLote \in LoteArgs : ConsultarLote(c, numeroLote)
    \/ \E response \in CnpjReplies(ftask[c].cnpjAlvo) : ConsultarCnpjResolve(c, response)
    \/ \E message \in CallFailures : ConsultarCnpjReject(c, message)
    \/ \E response \in RemoteReplies : RemoteResolve(c, response)
    \/ \E message \in CallFailures : RemoteReject(c, message)

LazySpec == FacadeInit /\ [][LazyNext]_vars

\* ----------------------------------------------------- certificate loading
\* PKCS#12 containers, by what node-forge finds in them: no bytes at all,
\* bytes that are not DER, no private-key bag, no certificate bag, a key or a
\* certificate forge cannot decode (bag.key / bag.cert is null), a key that
\* does not belong to the certificate, and a complete container.
ContainerKinds ==
  {"vazio", "corrompido", "semChave", "semCert", "chaveIlegivel", "certIlegivel",
   "descasado", "completo"}

\* The password every container is protected with.
Senha == "segredo"

Buf(kind) == [t |-> "buffer", c |-> kind]
Base64Of(kind) == "b64:" \o kind

\* Buffer.from(cleaned, 'base64') after the white space is removed; text that
\* encodes no container decodes to bytes that are not DER.
Base64Decode(str) ==
  LET cleaned == SelectSeq(str, LAMBDA tok : tok \notin {" ", "\n", "\r\n"})
      kinds == {k \in ContainerKinds : cleaned = <<Base64Of(k)>>}
  IN IF kinds = {} THEN Buf("corrompido") ELSE Buf(CHOOSE k \in kinds : TRUE)

\* p12.getBags(...)[oid] for the key bag and for the certificate bag.
KeyBags(kind) ==
  CASE kind = "semChave" -> <<>>
    [] kind = "chaveIlegivel" -> <<[key |-> Null]>>
    [] OTHER -> <<[key |-> Str(<<"chave de ", kind>>)]>>
CertBags(kind) ==
  CASE kind = "semCert" -> <<>>
    [] kind = "certIlegivel" -> <<[cert |-> Null]>>
    [] OTHER -> <<[cert |-> Str(<<"certificado de ", kind>>)]>>

\* forge.pki.privateKeyToPem / certificateToPem of a decoded key or certificate.
ToPem(obj) == Str(<<"-----BEGIN ">> \o obj.s \o <<"-----">>)

\* forge.asn1.fromDer followed by forge.pkcs12.pkcs12FromAsn1: the error
\* thrown, or <<>> when the container opens with the password.
OpenP12(kind, password) ==
  IF kind = "vazio" THEN <<"Too few bytes to parse DER.">>
  ELSE IF kind = "corrompido" THEN <<"Unparsed DER bytes remain after ASN.1 parsing.">>
  ELSE IF password # S(Senha) THEN <<"PKCS#12 MAC could not be verified. Invalid password?">>
  ELSE <<>>

\* Variant of the try block of loadPfx without the two bag checks.
loadPfxTryUnchecked(pfxBuffer, password) ==
  LET kind == pfxBuffer.c
      keyBag == KeyBags(kind)
      certBag == CertBags(kind)
  IN IF OpenP12(kind, password) # <<>> THEN Threw(OpenP12(kind, password))
     ELSE [t |-> "material",
           key |-> IF keyBag = <<>> \/ keyBag[1].key = Null THEN Undef ELSE ToPem(keyBag[1].key),
           cert |-> IF certBag = <<>> \/ certBag[1].cert = Null THEN Undef ELSE ToPem(certBag[1].cert),
           pfx |-> pfxBuffer, passphrase |-> password,
           secureContext |-> [t |-> "SecureContext"]]

\* The try block of loadPfx: what it returns, or what it throws to the catch.
loadPfxTry(pfxBuffer, password) ==
  LET kind == pfxBuffer.c
      keyBag == KeyBags(kind)
      certBag == CertBags(kind)
  IN IF OpenP12(kind, password) # <<>> THEN Threw(OpenP12(kind, password))
     ELSE IF keyBag = <<>> THEN Threw(<<"Chave privada nao encontrada no arquivo PFX">>)
     ELSE IF keyBag[1].key = Null THEN Threw(<<"Cannot read properties of null">>)
     ELSE IF certBag = <<>> THEN Threw(<<"Certificado nao encontrado no arquivo PFX">>)
     ELSE IF certBag[1].cert = Null THEN Threw(<<"Cannot read properties of null">>)
     ELSE IF kind = "descasado" THEN Threw(<<"key values mismatch">>)
     ELSE [t |-> "material",
           key |-> ToPem(keyBag[1].key), cert |-> ToPem(certBag[1].cert),
           pfx |-> pfxBuffer, passphrase |-> password,
           secureContext |-> [t |-> "SecureContext"]]

\* loadPfx(pfxData, password)
loadPfx(pfxData, password) ==
  IF ~Truthy(pfxData) THEN Threw(<<"Arquivo pfx nao informado">>)
  ELSE IF ~Truthy(password) THEN Threw(<<"Senha do certificado e obrigatoria">>)
  ELSE IF pfxData.t \notin {"string", "buffer"}
    THEN Threw(<<"pfxData deve ser Buffer ou string base64">>)
  ELSE LET pfxBuffer == IF pfxData.t = "string" THEN Base64Decode(pfxData.s) ELSE pfxData
           r == loadPfxTry(pfxBuffer, password)
       IN IF r.t = "threw"
          THEN Threw(<<"Falha ao carregar certificado PFX: ">> \o r.message)
          ELSE r

\* this.pfxBuffer.toString('binary'): the bytes of a Buffer; anything else
\* gives text that is not DER, or throws.
BinaryOf(pfxBuffer) == IF pfxBuffer.t = "buffer" THEN pfxBuffer.c ELSE "corrompido"

\* _createHttpsAgent(): the agent, or the error thrown. A missing bag makes
\* [0] undefined and a key or certificate that is null makes the PEM
\* conversion fail, both inside the try.
createHttpsAgent(pfxBuffer, pfxPassword) ==
  LET kind == BinaryOf(pfxBuffer)
      keyBag == KeyBags(kind)
      certBag == CertBags(kind)
      err == IF OpenP12(kind, pfxPassword) # <<>> THEN OpenP12(kind, pfxPassword)
             ELSE IF keyBag = <<>> THEN <<"Cannot read properties of undefined (reading 'key')">>
             ELSE IF keyBag[1].key = Null THEN <<"Cannot read properties of null">>
             ELSE IF certBag = <<>> THEN <<"Cannot read properties of undefined (reading 'cert')">>
             ELSE IF certBag[1].cert = Null THEN <<"Cannot read properties of null">>
             ELSE <<>>
  IN IF err # <<>> THEN Threw(<<"Erro ao processar certificado PFX: ">> \o err)
     ELSE [t |-> "Agent", cert |-> ToPem(certBag[1].cert), key |-> ToPem(keyBag[1].key),
           passphrase |-> pfxPassword]

\* new SoapClient(wsdlUrl, pfxBuffer, pfxPassword): the object, or the error.
newSoapClient(url, pfxBuffer, pfxPassword) ==
  IF ~Truthy(url) THEN Threw(<<"Parametro wsdlUrl obrigatorio">>)
  ELSE IF ~Truthy(pfxBuffer) THEN Threw(<<"Buffer do certificado pfx e obrigatorio">>)
  ELSE IF ~Truthy(pfxPassword) THEN Threw(<<"Senha do certificado pfx e obrigatoria">>)
  ELSE LET agent == createHttpsAgent(pfxBuffer, pfxPassword)
       IN IF agent.t = "threw" THEN agent
          ELSE [t |-> "SoapClient", wsdlUrl |-> url, pfxBuffer |-> pfxBuffer,
                pfxPassword |-> pfxPassword, client |-> Null, httpsAgent |-> agent]

\* Arguments: containers as a Buffer or as base64 text, and values that are no
\* container at all; the right password, a wrong one, and none.
PfxArgs ==
  {Undef, Null, EmptyStr, Num(7), S("nao e base64"),
   Str(<<Base64Of("completo")>>), Str(<<" ", Base64Of("completo"), "\n">>),
   Str(<<Base64Of("semChave")>>), Str(<<Base64Of("semCert")>>)}
  \cup {Buf(k) : k \in ContainerKinds}
PasswordArgs == {Undef, EmptyStr, S("errada"), S(Senha)}
UrlArgs == {EmptyStr, S("https://nfe.prefeitura.sp.gov.br/ws/WSUtil.e?wsdl")}

CertInit ==
  /\ SoapIdle
  /\ rhIn = NoInput
  /\ rhOut = NoOutput
  /\ FacadeFresh
  /\ usuario = <<>>
  /\ certIn \in [pfx : PfxArgs, password : PasswordArgs, wsdlUrl : UrlArgs]
  /\ certOut = [material |-> NotCalled, soapClient |-> NotCalled]
  /\ rps = NoInput
  /\ rpsOut = NoOutput

CallLoadPfx ==
  /\ certOut.material = NotCalled
  /\ certOut' = [certOut EXCEPT !.material = loadPfx(certIn.pfx, certIn.password)]
  /\ UNCHANGED <<soapVars, rhVars, facadeVars, certIn, rps, rpsOut>>

NewSoapClient ==
  /\ certOut.soapClient = NotCalled
  /\ certOut' = [certOut EXCEPT
                   !.soapClient = newSoapClient(certIn.wsdlUrl, certIn.pfx, certIn.password)]
  /\ UNCHANGED <<soapVars, rhVars, facadeVars, certIn, rps, rpsOut>>

CertNext ==
  \/ CallLoadPfx
  \/ NewSoapClient

CertSpec == CertInit /\ [][CertNext]_vars

\* --------------------------------------------------------------------- Rps
\* The fields as the constructor sets them.
NewRps ==
  [numeroRps |-> Null, serie |-> S("RPS"), dataEmissao |-> Null, tipo |-> Num(1),
   valorServicos |-> Null, codigoServico |-> Null, aliquotaServicos |-> Null,
   issRetido |-> Num(2), discriminacao |-> Null,
   tomadorCpf |-> Null, tomadorCnpj |-> Null, tomadorRazaoSocial |-> Null,
   tomadorEndereco |-> Null, tomadorEmail |-> Null]

\* How a method ends: the fields it leaves behind, and whether it threw.
Ok(fields) == [fields |-> fields, threw |-> FALSE]
Fail(fields) == [fields |-> fields, threw |-> TRUE]

setNumeroRps(r, numero) ==
  IF ~Truthy(numero) THEN Fail(r)
  ELSE Ok([r EXCEPT !.numeroRps = Str(ToStr(numero))])

setSerie(r, serie) ==
  IF ~Truthy(serie) THEN Fail(r)
  ELSE Ok([r EXCEPT !.serie = Str(ToStr(serie))])

setDataEmissao(r, data) ==
  IF ~Truthy(data) THEN Fail(r)
  ELSE IF data.t = "date" THEN Ok([r EXCEPT !.dataEmissao = Str(data.iso)])
  ELSE IF data.t = "string"
    \* Date.parse understands the ISO text and no other text given here
    THEN IF data # S("2024-01-31") THEN Fail(r) ELSE Ok([r EXCEPT !.dataEmissao = data])
  ELSE Fail(r)

setTipo(r, tipo) ==
  IF tipo \notin {Num(1), Num(2)} THEN Fail(r)
  ELSE Ok([r EXCEPT !.tipo = tipo])

setValorServicos(r, valor) ==
  IF valor.t # "number" \/ valor.n < 0 THEN Fail(r)
  ELSE Ok([r EXCEPT !.valorServicos = valor])

setCodigoServico(r, codigo) ==
  IF ~Truthy(codigo) THEN Fail(r)
  ELSE Ok([r EXCEPT !.codigoServico = Str(ToStr(codigo))])

setAliquotaServicos(r, aliquota) ==
  IF aliquota.t # "number" \/ aliquota.n < 0 \/ aliquota.n > 1 THEN Fail(r)
  ELSE Ok([r EXCEPT !.aliquotaServicos = aliquota])

setIssRetido(r, issRetido) ==
  IF issRetido \notin {Num(1), Num(2)} THEN Fail(r)
  ELSE Ok([r EXCEPT !.issRetido = issRetido])

setDiscriminacao(r, texto) ==
  IF ~Truthy(texto) THEN Fail(r)
  ELSE Ok([r EXCEPT !.discriminacao = Str(ToStr(texto))])

\* Variant that stores the CNPJ before it looks at the other fields.
setTomadorPJStoresFirst(r, dados) ==
  IF dados \in {Undef, Null} THEN Fail(r)
  ELSE LET cnpj == Get(dados, "cnpj")
           razaoSocial == Get(dados, "razaoSocial")
           endereco == Get(dados, "endereco")
           email == Get(dados, "email")
           r1 == IF cnpj.t = "string" THEN [r EXCEPT !.tomadorCnpj = Str(OnlyDigits(cnpj.s))]
                 ELSE r
       IN IF ~Truthy(cnpj) THEN Fail(r)
          ELSE IF cnpj.t # "string" THEN Fail(r)
          ELSE IF ~Truthy(razaoSocial) THEN Fail(r1)
          ELSE IF ~Truthy(endereco) THEN Fail(r1)
          ELSE Ok([r1 EXCEPT !.tomadorRazaoSocial = razaoSocial,
                             !.tomadorCpf = Null,
                             !.tomadorEndereco = endereco,
                             !.tomadorEmail = IF Truthy(email) THEN email ELSE @])

\* setTomadorPJ({cnpj, razaoSocial, endereco, email}): destructuring an absent
\* argument throws, and so does cnpj.replace on a value that is not a string,
\* before anything is assigned.
setTomadorPJ(r, dados) ==
  IF dados \in {Undef, Null} THEN Fail(r)
  ELSE LET cnpj == Get(dados, "cnpj")
           razaoSocial == Get(dados, "razaoSocial")
           endereco == Get(dados, "endereco")
           email == Get(dados, "email")
       IN IF ~Truthy(cnpj) THEN Fail(r)
          ELSE IF ~Truthy(razaoSocial) THEN Fail(r)
          ELSE IF ~Truthy(endereco) THEN Fail(r)
          ELSE IF cnpj.t # "string" THEN Fail(r)
          ELSE Ok([r EXCEPT !.tomadorCnpj = Str(OnlyDigits(cnpj.s)),
                            !.tomadorRazaoSocial = razaoSocial,
                            !.tomadorCpf = Null,
                            !.tomadorEndereco = endereco,
                            !.tomadorEmail = IF Truthy(email) THEN email ELSE @])

\* setTomadorPF({cpf, nome, endereco, email})
setTomadorPF(r, dados) ==
  IF dados \in {Undef, Null} THEN Fail(r)
  ELSE LET cpf == Get(dados, "cpf")
           nome == Get(dados, "nome")
           endereco == Get(dados, "endereco")
           email == Get(dados, "email")
       IN IF ~Truthy(cpf) THEN Fail(r)
          ELSE IF ~Truthy(nome) THEN Fail(r)
          ELSE IF ~Truthy(endereco) THEN Fail(r)
          ELSE IF cpf.t # "string" THEN Fail(r)
          ELSE Ok([r EXCEPT !.tomadorCpf = Str(OnlyDigits(cpf.s)),
                            !.tomadorRazaoSocial = nome,
                            !.tomadorCnpj = Null,
                            !.tomadorEndereco = endereco,
                            !.tomadorEmail = IF Truthy(email) THEN email ELSE @])

\* toObject(): the plain object, or Undef when it throws.
toObject(r) ==
  IF \/ r.numeroRps = Null \/ r.dataEmissao = Null \/ r.valorServicos = Null
     \/ r.codigoServico = Null \/ ~Truthy(r.discriminacao)
     \/ ~Truthy(r.tomadorRazaoSocial) \/ ~Truthy(r.tomadorEndereco)
  THEN Undef
  ELSE LET tomador == <<P("razaoSocial", r.tomadorRazaoSocial),
                        P("endereco", r.tomadorEndereco)>>
                      \o (IF Truthy(r.tomadorCpf) THEN <<P("cpf", r.tomadorCpf)>>
                          ELSE IF Truthy(r.tomadorCnpj) THEN <<P("cnpj", r.tomadorCnpj)>>
                          ELSE <<>>)
       IN Obj(<<P("rps", Obj(<<P("numeroRps", r.numeroRps), P("serie", r.serie),
                               P("dataEmissao", r.dataEmissao), P("tipo", r.tipo)>>)),
                P("servico", Obj(<<P("valorServicos", r.valorServicos),
                                   P("codigoServico", r.codigoServico),
                                   P("aliquotaServicos", r.aliquotaServicos),
                                   P("issRetido", r.issRetido),
                                   P("discriminacao", r.discriminacao)>>)),
                P("tomador", Obj(tomador))>>
              \o (IF Truthy(r.tomadorEmail) THEN <<P("emailTomador", r.tomadorEmail)>>
                  ELSE <<>>))

\* What the tomador setters are given: nothing, an empty object, objects with
\* some of the fields, an identifier that is a number or has no digit, and
\* complete data of a company and of a person.
TomadorArgs ==
  LET endereco == Obj(<<P("logradouro", S("Av. Paulista"))>>)
      cpf == Str(<<"123", ".", "456", ".", "789", "-", "09">>)
  IN { Undef, Obj(<<>>),
       Obj(<<P("cnpj", Str(OtherCnpjGiven))>>),
       Obj(<<P("cnpj", Str(OtherCnpjGiven)), P("razaoSocial", S("ACME Ltda"))>>),
       Obj(<<P("cnpj", Num(99888777)), P("razaoSocial", S("ACME Ltda")),
             P("endereco", endereco)>>),
       Obj(<<P("cnpj", Str(<<"/", "-">>)), P("razaoSocial", S("ACME Ltda")),
             P("endereco", endereco)>>),
       Obj(<<P("cnpj", Str(OtherCnpjGiven)), P("razaoSocial", S("ACME Ltda")),
             P("endereco", endereco)>>),
       Obj(<<P("cnpj", Str(OtherCnpjGiven)), P("razaoSocial", S("ACME Ltda")),
             P("endereco", endereco), P("email", S("fin@acme.example"))>>),
       Obj(<<P("cpf", cpf)>>),
       Obj(<<P("cpf", cpf), P("nome", S("Maria Silva"))>>),
       Obj(<<P("cpf", Num(123456789)), P("nome", S("Maria Silva")),
             P("endereco", endereco)>>),
       Obj(<<P("cpf", cpf), P("nome", S("Maria Silva")), P("endereco", endereco)>>) }

\* A method is called on the Rps and ends as res says. Each setter is called
\* with a value it accepts and with values it rejects.
RpsCall(method, res) ==
  /\ rps' = res.fields
  /\ rpsOut' = [method |-> method, threw |-> res.threw, obj |-> NotCalled]
  /\ UNCHANGED <<soapVars, rhVars, facadeVars, certIn, certOut>>

SetNumeroRps == \E numero \in {Num(0), Num(15)} : RpsCall("setNumeroRps", setNumeroRps(rps, numero))
SetSerie == \E serie \in {EmptyStr, S("A1")} : RpsCall("setSerie", setSerie(rps, serie))
SetDataEmissao == \E data \in {Undef, S("2024-01-31"), S("ontem"), Num(5)} : RpsCall("setDataEmissao", setDataEmissao(rps, data))
SetTipo == \E tipo \in {Num(2), Num(3)} : RpsCall("setTipo", setTipo(rps, tipo))
SetValorServicos ==
  \E valor \in {Num(100), Num(-1), S("100")} : RpsCall("setValorServicos", setValorServicos(rps, valor))
SetCodigoServico ==
  \E codigo \in {EmptyStr, S("1401")} : RpsCall("setCodigoServico", setCodigoServico(rps, codigo))
SetAliquotaServicos ==
  \E aliquota \in {Num(1), Num(2)} :
    RpsCall("setAliquotaServicos", setAliquotaServicos(rps, aliquota))
SetIssRetido ==
  \E issRetido \in {Num(1), Num(0)} : RpsCall("setIssRetido", setIssRetido(rps, issRetido))
SetDiscriminacao ==
  \E texto \in {Undef, S("consultoria")} : RpsCall("setDiscriminacao", setDiscriminacao(rps, texto))
SetTomadorPJ == \E dados \in TomadorArgs : RpsCall("setTomadorPJ", setTomadorPJ(rps, dados))
SetTomadorPF == \E dados \in TomadorArgs : RpsCall("setTomadorPF", setTomadorPF(rps, dados))

ToObject ==
  /\ rpsOut' = [method |-> "toObject", threw |-> toObject(rps) = Undef, obj |-> toObject(rps)]
  /\ UNCHANGED <<soapVars, rhVars, facadeVars, certIn, certOut, rps>>

RpsInit ==
  /\ SoapIdle
  /\ rhIn = NoInput
  /\ rhOut = NoOutput
  /\ FacadeFresh
  /\ usuario = <<>>
  /\ certIn = NoInput
  /\ certOut = NoOutput
  /\ rps = NewRps
  /\ rpsOut = [method |-> "constructor", threw |-> FALSE, obj |-> NotCalled]

RpsNext ==
  \/ SetNumeroRps
  \/ SetSerie
  \/ SetDataEmissao
  \/ SetTipo
  \/ SetValorServicos
  \/ SetCodigoServico
  \/ SetAliquotaServicos
  \/ SetIssRetido
  \/ SetDiscriminacao
  \/ SetTomadorPJ
  \/ SetTomadorPF
  \/ ToObject

RpsSpec == RpsInit /\ [][RpsNext]_vars

\* =============================================================== properties
Running(c) == task[c].pc \in {"creating", "awaitClient", "invoking"}
Named(c) == task[c].pc # "idle" /\ task[c].methodName # EmptyName

\* C1: when two call() invocations are both started before a client is cached,
\* creation of the SOAP client is started once only (never two creations in
\* flight, never a second client object) and both invocations run their remote
\* operation on the same client handle.
C1_SingleCreation ==
  /\ Cardinality({c \in Callers : task[c].pc = "creating"}) <= 1
  /\ Len(handles) <= 1
  /\ \A c, d \in Callers :
       (task[c].pc = "invoking" /\ task[d].pc = "invoking")
         => obs[c].usedHandle = obs[d].usedHandle

\* C2: a call() whose every attempt fails has made exactly n + 1 attempts when
\* maxRetries = n >= 0 was passed to the constructor (n = 0 included), and 3
\* attempts when maxRetries was not passed.
C2_AttemptsAreRetriesPlusOne ==
  \A c \in Callers :
    (Named(c) /\ task[c].pc = "thrown")
      => /\ optMaxRetries = Absent => obs[c].attempts = 3
         /\ (optMaxRetries # Absent /\ optMaxRetries[1] >= 0)
              => obs[c].attempts = optMaxRetries[1] + 1

\* C3: a call() that succeeds on attempt k returns the result of that attempt,
\* has waited exactly k - 1 times, k is at most maxRetries + 1, and the
\* success is the last thing the call did (it is settled: no attempt or wait
\* is pending after it).
C3_SuccessAfterRetries ==
  \A c \in Callers :
    obs[c].status = "succeeded"
      => /\ task[c].pc = "returned"
         /\ task[c].value = obs[c].lastResp[1]
         /\ task[c].value \in Results
         /\ obs[c].attempts = task[c].attempt
         /\ obs[c].waits = task[c].attempt - 1
         /\ task[c].attempt <= maxRetries + 1

C3_Witness ==
  \E c \in Callers :
    /\ obs[c].status = "succeeded"
    /\ optMaxRetries = <<2>>
    /\ task[c].attempt = 3
    /\ obs[c].waits = 2
    /\ task[c].value = "resultB"

\* C4: when every attempt of call(methodName, args) has failed, the error it
\* throws contains methodName and the message of the failure of the last
\* attempt, and no wait follows that last failure (one wait fewer than
\* attempts, and the call is settled).
C4_LastErrorWrapped ==
  \A c \in Callers :
    (Named(c) /\ task[c].pc = "thrown")
      => /\ obs[c].attempts >= 1
         /\ obs[c].lastErr # <<>>
         /\ Contains(task[c].error, <<task[c].methodName>>)
         /\ Contains(task[c].error, obs[c].lastErr)
         /\ obs[c].waits = obs[c].attempts - 1

\* A call whose first attempt failed while creating the client and whose last
\* attempt failed with a timeout of the remote operation.
C4_Witness ==
  \E c \in Callers :
    /\ Named(c) /\ task[c].pc = "thrown"
    /\ obs[c].creates >= 1 /\ obs[c].ops >= 1
    /\ obs[c].attempts = 3
    /\ obs[c].lastErr = <<"ETIMEDOUT">>

\* C5: call() with an empty methodName fails at once without any network
\* action: it starts no client creation, runs no remote operation, waits for
\* no retry, and leaves the cached client (and the set of clients) as it was.
C5_EmptyNameState ==
  \A c \in Callers :
    (task[c].pc # "idle" /\ task[c].methodName = EmptyName)
      => /\ task[c].pc = "thrown"
         /\ task[c].error = RequiredNameMessage
         /\ obs[c] = NoObs

C5_EmptyNameStep ==
  \A c \in Callers :
    (task'[c] # task[c] /\ task'[c].methodName = EmptyName)
      => (client' = client /\ handles' = handles)

C5_EmptyNameNoNetwork == []C5_EmptyNameState /\ [][C5_EmptyNameStep]_vars

\* An empty-name call has failed while the other caller is creating the client.
C5_Witness ==
  \E c, d \in Callers :
    /\ task[c].pc = "thrown" /\ task[c].methodName = EmptyName
    /\ task[d].pc = "creating"

\* C6: when the connected client has no operation named methodName, call()
\* fails immediately: the first attempt's failure is what the caller gets,
\* with no retry wait and no further attempt.
C6_NotFoundFailsImmediately ==
  \A c \in Callers :
    (Named(c) /\ obs[c].lastErr = NotFoundMessage(task[c].methodName))
      => /\ task[c].pc = "thrown"
         /\ obs[c].attempts = 1
         /\ obs[c].waits = 0

\* C7: with calls that never overlap, at most one client is ever created, no
\* creation is started once a client is cached, every remote operation runs on
\* the cached handle, and the cached client is never cleared or replaced.
C7_CacheState ==
  /\ Len(handles) <= 1
  /\ client \in {NoClient} \cup (1..Len(handles))
  /\ client # NoClient => \A c \in Callers : task[c].pc # "creating"
  /\ \A c \in Callers : obs[c].usedHandle \in {NoClient, client}

C7_CacheStep == client # NoClient => client' = client

C7_OneClientPerInstance == []C7_CacheState /\ [][C7_CacheStep]_vars

\* A later call runs its remote operation on the client an earlier,
\* settled call created.
C7_Witness ==
  \E c, d \in Callers :
    /\ c # d
    /\ task[c].pc = "returned" /\ obs[c].creates = 1 /\ obs[c].usedHandle = client
    /\ task[d].pc = "invoking" /\ obs[d].creates = 0 /\ obs[d].usedHandle = client

\* The endpoint the instance is bound to: wsdlUrl without its '?wsdl' suffix.
C8_BoundEndpoint ==
  IF Len(wsdlUrl) > 0 /\ wsdlUrl[Len(wsdlUrl)] = "?wsdl"
  THEN SubSeq(wsdlUrl, 1, Len(wsdlUrl) - 1)
  ELSE wsdlUrl

\* C8: every client object, cached or not, has its endpoint set to wsdlUrl
\* without the '?wsdl' suffix, and every remote operation is sent there and
\* never to the address the service description declares.
C8_EndpointForced ==
  /\ client \in {NoClient} \cup (1..Len(handles))
  /\ \A h \in 1..Len(handles) : handles[h].endpoint = C8_BoundEndpoint
  /\ \A c \in Callers :
       obs[c].ops > 0
         => /\ obs[c].sentTo = C8_BoundEndpoint
            /\ obs[c].sentTo \notin DeclaredLocations
            /\ obs[c].usedHandle \in 1..Len(handles)

\* Two clients exist (the creation race) and a remote operation is in flight
\* on the one that is no longer cached, for a URL that ends in '?wsdl'.
C8_Witness ==
  \E c \in Callers :
    /\ task[c].pc = "invoking"
    /\ Len(handles) = 2
    /\ obs[c].usedHandle # client
    /\ wsdlUrl[Len(wsdlUrl)] = "?wsdl"

\* C9: every failed attempt but the last is followed by exactly one wait of
\* retryInterval and then by the next attempt, whatever failed: while an
\* attempt runs the call has waited once per earlier attempt, right after a
\* failure that is not the last it is waiting for retryInterval, a call is
\* thrown only on its last attempt, and every wait lasted retryInterval.
C9_FixedWaitBetweenAttempts ==
  \A c \in Callers :
    Named(c)
      => /\ obs[c].attempts = (IF task[c].attempt <= MaxAttempts THEN task[c].attempt ELSE 0)
         /\ Running(c) => obs[c].waits = obs[c].attempts - 1
         /\ task[c].pc = "delaying"
              => /\ obs[c].status = "failed"
                 /\ obs[c].waits = obs[c].attempts
                 /\ obs[c].attempts < MaxAttempts
                 /\ task[c].delayMs = retryInterval
         /\ task[c].pc = "thrown"
              => /\ obs[c].attempts = MaxAttempts
                 /\ obs[c].waits = obs[c].attempts - 1
         /\ (task[c].pc = "returned" /\ obs[c].attempts > 0)
              => obs[c].waits = obs[c].attempts - 1
         /\ obs[c].waits > 0 => obs[c].waitMs = retryInterval
         /\ retryInterval = (IF optRetryInterval \in {Absent, <<0>>}
                             THEN 1000 ELSE optRetryInterval[1])

\* The third attempt is running after a failed creation and a missing-method
\* or remote failure, each followed by one wait.
C9_Witness ==
  \E c \in Callers :
    /\ Running(c)
    /\ obs[c].attempts = 3
    /\ obs[c].waits = 2
    /\ obs[c].creates = 1
    /\ obs[c].lastErr \notin CreateErrors
    /\ optRetryInterval = <<250>>

\* C10: for every maxRetries the constructor accepts (zero and negative
\* included), a call() with a non-empty methodName returns normally only when
\* an attempt's remote operation succeeded, and then with that result; it
\* never returns without one.
C10_ReturnsOnlyOnSuccess ==
  \A c \in Callers :
    (Named(c) /\ task[c].pc = "returned")
      => /\ obs[c].status = "succeeded"
         /\ obs[c].ops >= 1
         /\ task[c].value = obs[c].lastResp[1]

\* C24: when every client creation, remote operation and retry wait comes to
\* an end, every call() comes to an end, after at most maxRetries + 1
\* attempts, also when the creation of the client fails every time.
C24_CallTerminates ==
  /\ [](\A c \in Callers : obs[c].attempts <= IF MaxAttempts > 0 THEN MaxAttempts ELSE 0)
  /\ \A c \in Callers : (~Finished(c)) ~> Finished(c)

\* A call has failed after maxRetries + 1 attempts without a client ever
\* having been created.
C24_Witness ==
  \E c \in Callers :
    /\ task[c].pc = "thrown"
    /\ obs[c].attempts = MaxAttempts
    /\ MaxAttempts >= 2
    /\ handles = <<>>

\* ------------------------------------------------ ResponseHandler properties
\* The parts of the arguments the statements below speak about.
RhBody == Get(Get(rhIn.response, "Envelope"), "Body")
RhHasBody == Truthy(rhIn.response) /\ TypeOf(RhBody) = "object" /\ Truthy(RhBody)
RhFaultNode == RhHasBody /\ HasKey(RhBody, "Fault")
RhRootKey == IF rhIn.rootNode.t = "string" /\ rhIn.rootNode.s # <<>>
             THEN rhIn.rootNode.s[1] ELSE ""
RhHasNode == RhHasBody /\ RhRootKey # "" /\ HasKey(RhBody, RhRootKey)
RhNode == Get(RhBody, RhRootKey)
RhNormalized == rhOut # NoOutput /\ rhOut.normalized # NotCalled
RhStructured ==
  RhNormalized /\ ~RhFaultNode /\ RhHasNode /\ RhNode.t = "object"

\* C11: every result of normalizeResponse with success=false has data=null,
\* business-level rejections included.
C11_FailureHasNoData ==
  RhNormalized => (~rhOut.normalized.success => rhOut.normalized.data = Null)

\* C12: every result of normalizeResponse with success=true has error=null.
C12_SuccessHasNoError ==
  RhNormalized => (rhOut.normalized.success => rhOut.normalized.error = Null)

\* A successful result whose node also carries a message field.
C12_Witness ==
  /\ RhStructured
  /\ rhOut.normalized.success
  /\ HasKey(RhNode, "mensagem")

\* C13: whenever the Body holds a Fault node, normalizeResponse returns
\* {success:false, data:null, error:getFaultMessage(envelope)}, whatever
\* rootNode and the rest of the Body are.
C13_FaultTakesPrecedence ==
  (RhNormalized /\ RhFaultNode)
    => /\ ~rhOut.normalized.success
       /\ rhOut.normalized.data = Null
       /\ rhOut.normalized.error = getFaultMessage(rhIn.response)

\* C14: with a Body and no fault, the result is {success:true, data:Body,
\* error:null} when rootNode is absent or names no node of the Body, and data
\* is the named node, not the Body, when the Body has it.
C14_RootNodeSelectsData ==
  (RhNormalized /\ RhHasBody /\ ~RhFaultNode)
    => /\ ~RhHasNode => rhOut.normalized = Normalized(TRUE, RhBody, Null)
       /\ RhHasNode => (rhOut.normalized.data = RhNode /\ rhOut.normalized.data # RhBody)

\* The first of status, situacao, Status that holds a (non-empty) value.
C15_StatusTried ==
  LET fields == <<"status", "situacao", "Status">>
      found == {k \in 1..3 : Truthy(Get(RhNode, fields[k]))}
  IN IF found = {} THEN Undef
     ELSE Get(RhNode, fields[CHOOSE k \in found : \A j \in found : k <= j])

C15_SaysProcessado(v) ==
  \E i \in 1..Len(ToStr(v)) :
    ToStr(v)[i] \in {"processado", "Processado", "PROCESSADO"}

\* C15: for a structured result node the status is taken from status,
\* situacao, Status, tried in that order (a field that is absent, empty or 0
\* is passed over), and success is true exactly when that value is the string
\* "1" or contains the word processado in any case; any other value, and a
\* node with none of the fields, gives success=false.
C15_StatusHeuristic ==
  RhStructured
    => (rhOut.normalized.success
          <=> (/\ C15_StatusTried # Undef
               /\ \/ C15_StatusTried = Str(<<"1">>)
                  \/ C15_SaysProcessado(C15_StatusTried)))

\* A node whose Status is PROCESSADO in capitals was classified a success.
C15_Witness ==
  /\ RhStructured
  /\ rhOut.normalized.success
  /\ Get(RhNode, "Status") = S("PROCESSADO")

C16_Fields == <<"mensagem", "MsgErro", "erro">>

\* C16 as stated: for a structured node classified a failure, error is the
\* value of the first of mensagem, MsgErro, erro that is present, and the
\* serialization of the node when none of them is present.
C16_FirstPresentMessage ==
  (RhStructured /\ ~rhOut.normalized.success)
    => LET present == {k \in 1..3 : HasKey(RhNode, C16_Fields[k])}
       IN rhOut.normalized.error =
            (IF present = {} THEN Str(JsonStringify(RhNode))
             ELSE Get(RhNode, C16_Fields[CHOOSE k \in present : \A j \in present : k <= j]))

\* C16 (amended): for a structured node classified a failure, error is the
\* value of the first of mensagem, MsgErro, erro that is present with a
\* value other than the empty string, 0 and false, and the serialization of
\* the whole node when none of them has such a value.
C16_FirstNonEmptyMessage ==
  (RhStructured /\ ~rhOut.normalized.success)
    => LET filled == {k \in 1..3 : Truthy(Get(RhNode, C16_Fields[k]))}
       IN rhOut.normalized.error =
            (IF filled = {} THEN Str(JsonStringify(RhNode))
             ELSE Get(RhNode, C16_Fields[CHOOSE k \in filled : \A j \in filled : k <= j]))

\* A rejected node with both MsgErro and erro: the error is the MsgErro text.
C16_Witness ==
  /\ RhStructured
  /\ ~rhOut.normalized.success
  /\ HasKey(RhNode, "MsgErro") /\ HasKey(RhNode, "erro")
  /\ rhOut.normalized.error = S("lote rejeitado")

\* C17: for every scalar value of the node named rootNode in a fault-free
\* Body, the empty string and other falsy scalars included, the result is
\* success=true with data equal to that scalar and error=null.
C17_ScalarIsData ==
  (RhNormalized /\ ~RhFaultNode /\ RhHasNode /\ RhNode.t # "object")
    => rhOut.normalized = Normalized(TRUE, RhNode, Null)

\* The first of the two spellings of a Fault field that is present.
C18_Part(fault, k1, k2) ==
  IF HasKey(fault, k1) THEN Get(fault, k1)
  ELSE IF HasKey(fault, k2) THEN Get(fault, k2) ELSE Undef

C18_Detail(d) == IF d.t = "string" THEN d.s ELSE JsonStringify(d)

\* "[c] m - Detalhe: d" with the parts of absent fields left out.
C18_Composed(fault) ==
  LET c == C18_Part(fault, "faultcode", "faultCode")
      m == C18_Part(fault, "faultstring", "faultString")
      d == C18_Part(fault, "detail", "detail")
  IN (IF c # Undef THEN <<"[">> \o ToStr(c) \o <<"]", " ">> ELSE <<>>)
     \o (IF m # Undef THEN ToStr(m) ELSE <<>>)
     \o (IF d # Undef THEN <<" ", "-", " ", "Detalhe:", " ">> \o C18_Detail(d) ELSE <<>>)

\* The same with the parts of absent or empty fields left out.
C18_ComposedNonEmpty(fault) ==
  LET c == C18_Part(fault, "faultcode", "faultCode")
      m == C18_Part(fault, "faultstring", "faultString")
      d == C18_Part(fault, "detail", "detail")
  IN (IF Truthy(c) THEN <<"[">> \o ToStr(c) \o <<"]", " ">> ELSE <<>>)
     \o (IF Truthy(m) THEN ToStr(m) ELSE <<>>)
     \o (IF Truthy(d) THEN <<" ", "-", " ", "Detalhe:", " ">> \o C18_Detail(d) ELSE <<>>)

RhFaultAsked == rhOut # NoOutput /\ rhOut.faultMessage # NotCalled

\* C18 as stated: getFaultMessage returns null exactly when no Fault node is
\* present; for a fault with code c, message m and detail d it returns
\* "[c] m - Detalhe: d", without "[c] " when the code is absent and without
\* " - Detalhe: d" when the detail is absent, m defaulting to the empty string.
C18_FaultMessageFormat ==
  RhFaultAsked
    => /\ rhOut.faultMessage = Null <=> ~RhFaultNode
       /\ (RhFaultNode /\ Get(RhBody, "Fault").t = "object")
            => rhOut.faultMessage = Str(C18_Composed(Get(RhBody, "Fault")))

\* C18 (amended): getFaultMessage returns null exactly when no non-empty Fault
\* node is present; a Fault that is plain text is returned as it is; for a
\* structured Fault it returns "[c] m - Detalhe: d", without "[c] " when the
\* code is absent or empty and without " - Detalhe: d" when the detail is
\* absent or empty, m defaulting to the empty string, and with the whitespace
\* at both ends of the composed text removed.
C18_FaultMessageTrimmed ==
  RhFaultAsked
    => LET fault == Get(RhBody, "Fault")
       IN /\ rhOut.faultMessage = Null <=> ~(RhFaultNode /\ Truthy(fault))
          /\ (RhFaultNode /\ Truthy(fault) /\ fault.t = "string")
               => rhOut.faultMessage = fault
          /\ (RhFaultNode /\ fault.t = "object")
               => rhOut.faultMessage = Str(Trim(C18_ComposedNonEmpty(fault)))

\* The fault of the example: code ns1:Server, message "internal error".
C18_Witness ==
  /\ RhFaultAsked
  /\ rhOut.faultMessage = Str(<<"[", "ns1:Server", "]", " ", "internal", " ", "error">>)

\* C19: hasFault returns the boolean true exactly when a Fault node is present
\* under Envelope/Body and the boolean false in every other case, and it says
\* true exactly when normalizeResponse on the same envelope takes its fault
\* branch.
C19_HasFaultIsBoolean ==
  (rhOut # NoOutput /\ rhOut.hasFault # NotCalled)
    => /\ rhOut.hasFault \in {Bool(TRUE), Bool(FALSE)}
       /\ rhOut.hasFault = Bool(TRUE) <=> RhFaultNode
       /\ RhNormalized
            => (rhOut.hasFault = Bool(TRUE)
                  <=> rhOut.normalized = Normalized(FALSE, Null, getFaultMessage(rhIn.response)))

\* C29: every result of normalizeResponse with success = false carries an
\* error text that is neither null nor empty, for every envelope (a Fault node
\* without faultstring, faultcode and detail included) and every rootNode.
C29_FailureHasErrorText ==
  (rhOut.normalized # NotCalled /\ rhOut.normalized.success = FALSE)
    => /\ rhOut.normalized.error.t = "string"
       /\ rhOut.normalized.error # EmptyStr

\* --------------------------------------------------- NotaFiscalSP properties
OwnMethods == {"nfdEntrada", "nfdSaida", "nfdEntradaCancelar", "nfdConsultaLote"}

\* C20: none of enviarNota, consultarNota, cancelarNota and consultarLote sends
\* its remote call, or builds its request body, while this.im is null: on an
\* unresolved facade each of them resolves the registration first.
C20_ReadyBeforeRemoteCall ==
  \A i \in 1..Len(sent) : sent[i].method \in OwnMethods => sent[i].im # Null

\* Number of calls of method in the log.
SentCount(method) == Cardinality({i \in 1..Len(sent) : sent[i].method = method})

C21_Step ==
  Truthy(im) => /\ im' = im
                /\ SentCount("consultarCnpj")' = SentCount("consultarCnpj")

\* C21: once this.im is set, no enviarNota, consultarNota or consultarLote
\* issues the consultarCnpj call again and this.im keeps its value, over any
\* sequence of these operations.
C21_ResolvedOnce == [][C21_Step]_vars

\* Two operations have sent their own calls after a single resolution.
C21_Witness ==
  /\ Truthy(im)
  /\ SentCount("consultarCnpj") = 1
  /\ Len(sent) = 3
  /\ sent[2].im = im /\ sent[3].im = im

NeedsIm == {"enviarNota", "consultarNota", "consultarLote"}
NoImMessage == "Nao foi possivel obter inscricao municipal para o CNPJ informado."

\* An answer of consultarCnpj that carries no registration.
C23_NoRegistration(response) ==
  ~Truthy(response) \/ ~Truthy(Get(response, "inscricaomunicipal"))

\* Caller c starts one of the three operations in this step.
C23_Starts(c) ==
  \/ \E rpsPayload \in RpsPayloads : EnviarNota(c, rpsPayload)
  \/ \E reciboNumero \in ReciboArgs : ConsultarNota(c, reciboNumero)
  \/ \E numeroLote \in LoteArgs : ConsultarLote(c, numeroLote)

C23_Step ==
  \A c \in Callers :
    /\ \A message \in CallFailures :
         (ftask[c].op \in NeedsIm /\ ConsultarCnpjReject(c, message))
           => /\ ftask'[c].pc = "done" /\ ftask'[c].out = Threw(message)
              /\ im' = im /\ sent' = sent
    /\ \A response \in CnpjReplies(ftask[c].cnpjAlvo) :
         (ftask[c].op \in NeedsIm /\ C23_NoRegistration(response)
            /\ ConsultarCnpjResolve(c, response))
           => /\ ftask'[c].pc = "done" /\ ftask'[c].out = Threw(NoImMessage)
              /\ im' = im /\ sent' = sent
    /\ (~Truthy(im) /\ C23_Starts(c))
         => /\ ftask'[c].pc = "resolving"
            /\ sent' = Append(sent, [method |-> "consultarCnpj", by |-> c, im |-> im,
                                     arg |-> Str(Cnpj)])

\* C23: when the resolution started by enviarNota, consultarNota or
\* consultarLote fails (the call throws, or the answer has no
\* inscricaomunicipal), the operation fails with that error, this.im stays as
\* it was (null), the operation's own remote call is not issued, and a later
\* operation on the unresolved facade starts the resolution again.
C23_FailedResolution == [][C23_Step]_vars

\* The resolution started by an operation of one caller gave no registration:
\* the operation has failed with that error, the facade is still unresolved,
\* only consultarCnpj has been called, and an operation of the other caller is
\* asking for the registration again.
C23_Witness ==
  \E c, d \in Callers :
    /\ im = Null
    /\ ftask[c].pc = "done" /\ ftask[c].op \in NeedsIm /\ ftask[c].out = Threw(NoImMessage)
    /\ ftask[d].pc = "resolving" /\ ftask[d].op \in NeedsIm
    /\ Len(sent) = 2
    /\ sent[1] = [method |-> "consultarCnpj", by |-> c, im |-> Null, arg |-> Str(Cnpj)]
    /\ sent[2] = [method |-> "consultarCnpj", by |-> d, im |-> Null, arg |-> Str(Cnpj)]

\* C25: a non-null this.im is the registration of the facade's own CNPJ, and
\* no enviarNota, consultarNota or consultarLote sends the registration of
\* another taxpayer, whatever public operations were called before,
\* consultarInscricao with another CNPJ included.
C25_OwnRegistration ==
  /\ Truthy(im) => im = Registration(Cnpj)
  /\ \A i \in 1..Len(sent) :
       sent[i].method \in {"nfdEntrada", "nfdSaida", "nfdConsultaLote"}
         => sent[i].arg.im = Registration(Cnpj)

\* The last remote call issued for caller c.
LastSentBy(c) ==
  sent[CHOOSE i \in 1..Len(sent) :
         sent[i].by = c /\ \A j \in (i + 1)..Len(sent) : sent[j].by # c]

\* C26: when two of enviarNota, consultarNota and consultarLote are started
\* together on an unresolved facade, consultarCnpj is called once only (never
\* two resolutions in flight) and both operations send the same registration.
C26_SharedResolution ==
  /\ Cardinality({c \in Callers : ftask[c].pc = "resolving" /\ ftask[c].op \in NeedsIm}) <= 1
  /\ \A c, d \in Callers :
       (/\ ftask[c].pc = "calling" /\ ftask[c].op \in NeedsIm
        /\ ftask[d].pc = "calling" /\ ftask[d].op \in NeedsIm)
         => LastSentBy(c).arg.im = LastSentBy(d).arg.im

\* A cancel payload that is absent or lacks numeroRps or motivo.
C27_Incomplete(cancelPayload) ==
  \/ ~Truthy(cancelPayload)
  \/ ~Truthy(Get(cancelPayload, "numeroRps"))
  \/ ~Truthy(Get(cancelPayload, "motivo"))

C27_Step ==
  \A c \in Callers :
    (\/ EnviarNota(c, Undef)
     \/ ConsultarNota(c, Undef)
     \/ ConsultarLote(c, Undef)
     \/ \E cancelPayload \in CancelPayloads :
          C27_Incomplete(cancelPayload) /\ CancelarNota(c, cancelPayload))
      => /\ ftask'[c].pc = "done" /\ ftask'[c].out.t = "threw"
         /\ sent' = sent
         /\ im' = im

\* C27: an operation called without its required argument (enviarNota without
\* payload, consultarNota without recibo, consultarLote without numeroLote,
\* cancelarNota without payload, numeroRps or motivo) fails without issuing a
\* remote call and without changing the facade, unresolved or ready.
C27_MissingArgumentFailsFirst == [][C27_Step]_vars

\* ------------------------------------------- certificate loading properties
\* The container the arguments hold, when they hold one.
CertKind ==
  IF certIn.pfx.t = "buffer" THEN certIn.pfx.c
  ELSE IF certIn.pfx.t = "string" /\ Truthy(certIn.pfx) THEN Base64Decode(certIn.pfx.s).c
  ELSE "nenhum"

\* Empty or absent container or password, a container that does not open, or
\* one without its key bag or without its certificate bag.
CertUnusable ==
  \/ ~Truthy(certIn.pfx) \/ ~Truthy(certIn.password)
  \/ CertKind \in {"nenhum", "vazio", "corrompido", "semChave", "semCert"}
  \/ certIn.password # S(Senha)

Present(v) == v # Undef /\ v # Null /\ v # EmptyStr

\* C22: loadPfx and the SoapClient constructor either give complete material
\* (PEM key, PEM certificate, TLS context or agent) or throw and give nothing;
\* they throw whenever the container or the password is empty or absent, the
\* container does not open, or the key bag or the certificate bag is missing;
\* a failed construction leaves no client object.
C22_AllOrNothing ==
  /\ (certOut # NoOutput /\ certOut.material # NotCalled)
       => LET r == certOut.material
          IN /\ r.t = "threw"
                  \/ (r.t = "material" /\ Present(r.key) /\ Present(r.cert)
                        /\ Present(r.secureContext))
             /\ CertUnusable => r.t = "threw"
  /\ (certOut # NoOutput /\ certOut.soapClient # NotCalled)
       => LET o == certOut.soapClient
          IN /\ o.t = "threw"
                  \/ (o.t = "SoapClient" /\ Present(o.httpsAgent)
                        /\ Present(o.httpsAgent.key) /\ Present(o.httpsAgent.cert))
             /\ (CertUnusable \/ certIn.pfx.t # "buffer") => o.t = "threw"

\* Both loaders were given a container without its key bag and the right
\* password, and both threw.
C22_Witness ==
  /\ certOut # NoOutput
  /\ certIn.pfx = Buf("semChave") /\ certIn.password = S(Senha) /\ Truthy(certIn.wsdlUrl)
  /\ certOut.material # NotCalled /\ certOut.material.t = "threw"
  /\ certOut.soapClient # NotCalled /\ certOut.soapClient.t = "threw"

\* ------------------------------------------------------------ Rps properties
C28_OneTomadorId == rps.tomadorCpf = Null \/ rps.tomadorCnpj = Null

C28_ObjectHasOneId ==
  (rpsOut.method = "toObject" /\ ~rpsOut.threw)
    => ~(HasKey(Get(rpsOut.obj, "tomador"), "cpf") /\ HasKey(Get(rpsOut.obj, "tomador"), "cnpj"))

C28_ThrowKeepsFields == rpsOut'.threw => rps' = rps

\* C28: after any sequence of setter calls, successful or throwing, at most one
\* of tomadorCpf and tomadorCnpj is non-null; a setter that throws leaves every
\* field as it was; toObject() never emits both a cpf and a cnpj for the
\* tomador.
C28_TomadorExclusive ==
  /\ [](C28_OneTomadorId /\ C28_ObjectHasOneId)
  /\ [][C28_ThrowKeepsFields]_vars

\* A complete Rps whose tomador was first a company and then a person: the
\* object carries the cpf only.
C28_Witness ==
  /\ rpsOut.method = "toObject" /\ ~rpsOut.threw
  /\ rps.tomadorCpf # Null /\ rps.tomadorCnpj = Null
  /\ rps.tomadorEmail = S("fin@acme.example")
  /\ HasKey(Get(rpsOut.obj, "tomador"), "cpf")

====
